---- MODULE Spec2Model ----
(***************************************************************************)
(* TVstreamCZ: the filename parser (parser.py), the catalogue's            *)
(* fetch-filter-paginate loop (catalogue.py), the Webshare search wrapper  *)
(* (webshare_api.py) and the metadata manager (metadata.py).               *)
(*                                                                         *)
(* A file name is a sequence of tokens (the pieces between the separators  *)
(* . _ - and blanks); a regular expression of parser.py is the set of      *)
(* vocabulary tokens it matches.  A title (cleaned_title, sort_title) is   *)
(* the sequence of its words, joined by single blanks.                     *)
(***************************************************************************)
EXTENDS Integers, Sequences, FiniteSets, TLC

\* Python's None, for an optional string and for an optional number (the
\* numbers of the program are never negative)
None == "None"
NoneInt == 0 - 1

Max(a, b) == IF a >= b THEN a ELSE b
Min(a, b) == IF a <= b THEN a ELSE b

(***************************************************************************)
(* Bounds of the model                                                     *)
(***************************************************************************)
\* the largest number of words in a generated file name
MaxNameLen == 3
\* the largest number of records of an upstream that does not change
MaxShelf == 3
\* the results of a TMDb search are at most MaxResults
MaxResults == 3
\* the largest total the upstream reports
MaxTotal == 3
\* the largest number of records in one upstream response
MaxFiles == 2
\* where the request and record counters of one call stop counting
MaxCount == MaxTotal + MaxFiles + 2

(***************************************************************************)
(* parser.py                                                               *)
(***************************************************************************)
MiB == 1024 * 1024

\* the words of the file names of the model
Vocabulary ==
    {"Heat", "Show", "Up", "Dragon", "Trailer", "1995", "2009",
     "1080p", "720p", "2160p", "CZ", "EN", "S01E02", "DVDRip",
     "Awesome", "Movie", "2021", "BluRay", "x264", "ENG", "DTS", "GROUP", "mkv",
     "My", "Favorite", "S03E04", "The", "Episode", "Title", "WEB", "DL", "SK",
     "AAC", "2023", "Series", "Part01", "CD1", "...", "2x05", "HDTV", "Season1"}

\* str.lower() of a word
LowerTok(t) ==
    CASE t = "Heat" -> "heat" [] t = "Show" -> "show" [] t = "Up" -> "up"
      [] t = "Dragon" -> "dragon" [] t = "Trailer" -> "trailer"
      [] t = "CZ" -> "cz" [] t = "EN" -> "en" [] t = "S01E02" -> "s01e02"
      [] t = "Action" -> "action" [] t = "Drama" -> "drama"
      [] t = "DVDRip" -> "dvdrip" [] t = "HDTV" -> "hdtv"
      [] t = "The" -> "the" [] t \in {"Matrix", "MATRIX"} -> "matrix"
      [] t = "Reloaded" -> "reloaded"
      [] t = "Awesome" -> "awesome" [] t = "Movie" -> "movie"
      [] t = "BluRay" -> "bluray" [] t = "ENG" -> "eng" [] t = "DTS" -> "dts"
      [] t = "GROUP" -> "group" [] t = "My" -> "my" [] t = "Favorite" -> "favorite"
      [] t = "S03E04" -> "s03e04" [] t = "Episode" -> "episode"
      [] t = "Title" -> "title" [] t = "WEB" -> "web" [] t = "DL" -> "dl"
      [] t = "SK" -> "sk" [] t = "AAC" -> "aac" [] t = "Series" -> "series"
      [] t = "Part01" -> "part01" [] t = "CD1" -> "cd1"
      [] t = "Season1" -> "season1"
      [] OTHER -> t

\* len() of a word
TokLen(t) ==
    CASE LowerTok(t) \in {"up", "cz", "en", "my", "dl", "sk"} -> 2
      [] LowerTok(t) \in {"mkv", "eng", "dts", "web", "aac", "cd1", "the", "..."} -> 3
      [] LowerTok(t) \in {"heat", "show", "1995", "2009", "2021", "2023", "720p",
                           "x264", "2x05", "hdtv"} -> 4
      [] LowerTok(t) \in {"1080p", "2160p", "movie", "group", "title"} -> 5
      [] LowerTok(t) \in {"dragon", "s01e02", "s03e04", "dvdrip", "bluray", "part01",
                           "series"} -> 6
      [] LowerTok(t) = "favorite" -> 8
      [] OTHER -> 7

Lower(s) == [i \in 1..Len(s) |-> LowerTok(s[i])]

\* len() of the words joined by single blanks
StrLen(s) ==
    LET F[i \in 0..Len(s)] ==
            IF i = 0 THEN 0
            ELSE F[i - 1] + TokLen(s[i]) + (IF i > 1 THEN 1 ELSE 0)
    IN  F[Len(s)]

\* re.search: the first token of the name that the expression matches, 0 if none
FirstMatch(pattern, name) ==
    IF \E i \in 1..Len(name) : name[i] \in pattern
    THEN CHOOSE i \in 1..Len(name) :
            name[i] \in pattern /\ \A j \in 1..(i - 1) : name[j] \notin pattern
    ELSE 0

Search(pattern, name) == FirstMatch(pattern, name) # 0

_YEAR_RE == {"1995", "2009", "2021", "2023"}
_SEASON_EPISODE_RE == {"S01E02", "S03E04"}
_ALT_SEASON_EPISODE_RE == {"2x05"}
QualityUhd == {"2160p"}
QualityHd == {"1080p", "720p", "BluRay", "HDTV"}
QualitySd == {"DVDRip", "DTS", "HDTV"}
_QUALITY_PATTERNS ==
    << <<"uhd", QualityUhd, 3>>, <<"hd", QualityHd, 2>>, <<"sd", QualitySd, 1>> >>
_LANGUAGE_MAP ==
    << <<"cz", {"CZ", "cz"}>>, <<"sk", {"SK", "sk"}>>, <<"en", {"EN", "en", "ENG", "eng"}>> >>
_SUBTITLE_MAP == << <<"cz", {}>>, <<"sk", {}>>, <<"en", {}>> >>
_REMOVE_TOKENS ==
    {"1080p", "720p", "2160p", "CZ", "EN", "DVDRip", "BluRay", "x264", "ENG", "DTS",
     "SK", "AAC", "HDTV"}
_ARTICLES == {"the", "a", "an", "der", "die", "das", "le", "la", "los", "las", "el"}

\* int(match.group(n)) of the season/episode and year expressions
SeasonOf(t) == CASE t = "S03E04" -> 3 [] t = "2x05" -> 2 [] OTHER -> 1
EpisodeOf(t) == CASE t = "S03E04" -> 4 [] t = "2x05" -> 5 [] OTHER -> 2
YearOf(t) ==
    CASE t = "1995" -> 1995 [] t = "2021" -> 2021 [] t = "2023" -> 2023
      [] OTHER -> 2009

\* the pair of the marker that comes first in the name, of whichever style
detect_season_episode_first_marker(name) ==
    IF Search(_SEASON_EPISODE_RE \cup _ALT_SEASON_EPISODE_RE, name)
    THEN LET t == name[FirstMatch(_SEASON_EPISODE_RE \cup _ALT_SEASON_EPISODE_RE, name)]
         IN  <<SeasonOf(t), EpisodeOf(t)>>
    ELSE <<NoneInt, NoneInt>>

detect_season_episode(name) ==
    IF Search(_SEASON_EPISODE_RE, name)
    THEN LET t == name[FirstMatch(_SEASON_EPISODE_RE, name)]
         IN  <<SeasonOf(t), EpisodeOf(t)>>
    ELSE IF Search(_ALT_SEASON_EPISODE_RE, name)
    THEN LET t == name[FirstMatch(_ALT_SEASON_EPISODE_RE, name)]
         IN  <<SeasonOf(t), EpisodeOf(t)>>
    ELSE <<NoneInt, NoneInt>>

detect_year(name) ==
    IF Search(_YEAR_RE, name) THEN YearOf(name[FirstMatch(_YEAR_RE, name)]) ELSE NoneInt

\* the loop over the table without its break: the last pattern that matches decides
detect_quality_no_break(name) ==
    LET found == {i \in 1..Len(_QUALITY_PATTERNS) : Search(_QUALITY_PATTERNS[i][2], name)}
        last == CHOOSE i \in found : \A j \in found : i >= j
    IN  IF found = {} THEN <<None, 0>>
        ELSE <<_QUALITY_PATTERNS[last][1], _QUALITY_PATTERNS[last][3]>>

\* the first pattern of the table that the name matches decides
detect_quality(name) ==
    LET found == {i \in 1..Len(_QUALITY_PATTERNS) : Search(_QUALITY_PATTERNS[i][2], name)}
        first == CHOOSE i \in found : \A j \in found : i <= j
    IN  IF found = {} THEN <<None, 0>>
        ELSE <<_QUALITY_PATTERNS[first][1], _QUALITY_PATTERNS[first][3]>>

\* the languages found, in the order of the table
detect_languages(name, patterns) ==
    LET found == {i \in 1..Len(patterns) : Search(patterns[i][2], Lower(name))}
        F[i \in 0..Len(patterns)] ==
            IF i = 0 THEN <<>>
            ELSE IF i \in found THEN Append(F[i - 1], patterns[i][1]) ELSE F[i - 1]
    IN  F[Len(patterns)]

\* pattern.sub(" ", work) and the collapse of blanks: the words that stay
Strip(pattern, s) == SelectSeq(s, LAMBDA t : t \notin pattern)

\* a run of separators that stands where a word could: name.replace(".", " ")
\* turns it into blanks
Separators == {"..."}

clean_title(name) ==
    LET work == Strip(_YEAR_RE,
                  Strip(_ALT_SEASON_EPISODE_RE,
                    Strip(_SEASON_EPISODE_RE,
                      Strip(_REMOVE_TOKENS, Strip(Separators, name)))))
    IN  IF work # <<>> THEN work ELSE name

make_sort_title(title) ==
    LET lower == Lower(title)
    IN  IF Len(lower) > 1 /\ lower[1] \in _ARTICLES THEN Tail(lower) ELSE lower

\* the expressions of classify_media_type
TvPatterns == {"S01E02", "S03E04", "2x05", "Season1"}
NonContentPattern == {"Trailer"}
ShortClipPattern == {}
SidecarPattern == {}
PartPattern == {"Part01", "CD1"}
MovieWordPattern == {"Movie"}

\* the classifier with the rules of the files that are no content before those
\* of the series
classify_media_type_blocklist_first(name) ==
    IF Search(NonContentPattern, name) THEN "other"
    ELSE IF Search(ShortClipPattern, name) THEN "other"
    ELSE IF Search(SidecarPattern, name) THEN "other"
    ELSE IF Search(PartPattern, name) /\ ~Search(MovieWordPattern, name) THEN "other"
    ELSE IF detect_season_episode(name)[1] # NoneInt \/ detect_season_episode(name)[2] # NoneInt
    THEN "tvshow"
    ELSE IF Search(TvPatterns, name) THEN "tvshow"
    ELSE "movie"

\* the classifier with a part rule that does not look for movie or film
classify_media_type_part_always(name) ==
    IF detect_season_episode(name)[1] # NoneInt \/ detect_season_episode(name)[2] # NoneInt
    THEN "tvshow"
    ELSE IF Search(TvPatterns, name) THEN "tvshow"
    ELSE IF Search(NonContentPattern, name) THEN "other"
    ELSE IF Search(ShortClipPattern, name) THEN "other"
    ELSE IF Search(SidecarPattern, name) THEN "other"
    ELSE IF Search(PartPattern, name) THEN "other"
    ELSE "movie"

classify_media_type(name) ==
    IF detect_season_episode(name)[1] # NoneInt \/ detect_season_episode(name)[2] # NoneInt
    THEN "tvshow"
    ELSE IF Search(TvPatterns, name) THEN "tvshow"
    ELSE IF Search(NonContentPattern, name) THEN "other"
    ELSE IF Search(ShortClipPattern, name) THEN "other"
    ELSE IF Search(SidecarPattern, name) THEN "other"
    ELSE IF Search(PartPattern, name) /\ ~Search(MovieWordPattern, name) THEN "other"
    ELSE "movie"

\* a dict of metadata (Optional[Dict]): None, or the keys it holds and their
\* values; a key it does not hold has the value written in EmptyVal
DictKeys == {"title", "year", "genres", "provider"}
EmptyVal == [title |-> <<>>, year |-> NoneInt, genres |-> <<>>, provider |-> ""]
EmptyDict == [none |-> FALSE, keys |-> {}, val |-> EmptyVal]
NoneDict == [none |-> TRUE, keys |-> {}, val |-> EmptyVal]
\* bool(d) of an Optional[Dict]
Truthy(d) == ~d.none /\ d.keys # {}

\* an update that keeps the values of the keys the dict already holds
DictUpdateAdditive(m, data) ==
    [none |-> FALSE,
     keys |-> m.keys \cup data.keys,
     val |-> [k \in DictKeys |->
                IF k \in data.keys /\ k \notin m.keys THEN data.val[k] ELSE m.val[k]]]

\* dict.update(data)
DictUpdate(m, data) ==
    [none |-> FALSE,
     keys |-> m.keys \cup data.keys,
     val |-> [k \in DictKeys |-> IF k \in data.keys THEN data.val[k] ELSE m.val[k]]]

\* dict.setdefault(key, value)
SetDefault(m, key, value) ==
    IF key \in m.keys THEN m
    ELSE [m EXCEPT !.keys = m.keys \cup {key}, !.val[key] = value]

\* MediaItem.apply_metadata: the item after the merge
apply_metadata(item, data) ==
    IF ~Truthy(data) THEN item
    ELSE [item EXCEPT !.metadata =
            SetDefault(SetDefault(DictUpdate(item.metadata, data),
                                  "title", item.cleaned_title),
                       "year", item.guessed_year)]

\* a raw record of the upstream: the fields the catalogue reads
Payload(ident, name, size) == [ident |-> ident, name |-> name, size |-> size]

parse_media_entry(data) ==
    LET name == data.name
        se == detect_season_episode(name)
        q == detect_quality(name)
        cleaned == clean_title(name)
    IN  [ident |-> data.ident,
         original_name |-> name,
         size |-> data.size,
         media_type |-> classify_media_type(name),
         cleaned_title |-> cleaned,
         sort_title |-> make_sort_title(cleaned),
         guessed_year |-> detect_year(name),
         season |-> se[1],
         episode |-> se[2],
         quality |-> q[1],
         quality_score |-> q[2],
         audio_languages |-> detect_languages(name, _LANGUAGE_MAP),
         subtitle_languages |-> detect_languages(name, _SUBTITLE_MAP),
         metadata |-> EmptyDict]

(***************************************************************************)
(* catalogue.py: the filter                                                *)
(***************************************************************************)
\* bool(s) of an optional string
Given(s) == s # None /\ s # ""

\* s[:1] of a lowercase word
FirstChar(t) ==
    CASE t = "heat" -> "h" [] t = "show" -> "s" [] t = "up" -> "u"
      [] t \in {"dragon", "dvdrip"} -> "d" [] t = "trailer" -> "t"
      [] t \in {"1995", "1080p"} -> "1" [] t \in {"2009", "2160p"} -> "2"
      [] t = "720p" -> "7" [] t = "cz" -> "c" [] t = "en" -> "e"
      [] t \in {"s01e02", "s03e04", "sk", "series", "season1"} -> "s"
      [] t \in {"2021", "2023", "2x05"} -> "2" [] t \in {"awesome", "aac"} -> "a"
      [] t \in {"movie", "mkv", "my"} -> "m" [] t = "bluray" -> "b"
      [] t = "x264" -> "x" [] t \in {"eng", "episode"} -> "e"
      [] t \in {"dts", "dl"} -> "d" [] t = "group" -> "g"
      [] t = "favorite" -> "f" [] t \in {"the", "title"} -> "t"
      [] t = "web" -> "w" [] t = "part01" -> "p" [] t = "cd1" -> "c"
      [] t = "hdtv" -> "h"
      [] OTHER -> ""

IsDigit(c) == c \in {"0", "1", "2", "3", "4", "5", "6", "7", "8", "9"}

\* the genres of genre_keywords with a keyword inside the lowercase word
KeywordGenres(t) == IF t = "dragon" THEN {"fantasy"} ELSE {}

\* the genres of the metadata and the guessed ones together
ItemGenresWithKeywords(item) ==
    LET meta == IF Truthy(item.metadata) /\ "genres" \in item.metadata.keys
                THEN {LowerTok(item.metadata.val.genres[i]) :
                         i \in 1..Len(item.metadata.val.genres)}
                ELSE {}
        words == {Lower(item.cleaned_title)[i] : i \in 1..Len(item.cleaned_title)}
                 \cup {Lower(item.original_name)[i] : i \in 1..Len(item.original_name)}
    IN  meta \cup UNION {KeywordGenres(w) : w \in words}

\* the genres the filter judges the item by: those of the metadata, else those
\* guessed from the title and the file name
ItemGenres(item) ==
    LET meta == IF Truthy(item.metadata) /\ "genres" \in item.metadata.keys
                THEN {LowerTok(item.metadata.val.genres[i]) :
                         i \in 1..Len(item.metadata.val.genres)}
                ELSE {}
        words == {Lower(item.cleaned_title)[i] : i \in 1..Len(item.cleaned_title)}
                 \cup {Lower(item.original_name)[i] : i \in 1..Len(item.original_name)}
    IN  IF meta # {} THEN meta ELSE UNION {KeywordGenres(w) : w \in words}

\* a minimum one byte above the documented one
MinSizeAbove(media_type) ==
    IF media_type = "movie" THEN 100 * MiB + 1 ELSE 50 * MiB + 1

\* min_size of the requested kind: 100MB for movies, 50MB for TV shows
MinSize(media_type) ==
    IF media_type = "movie" THEN 100 * MiB ELSE 50 * MiB

\* the tests of the filter after the first one
PassesRest(item, media_type, letter, quality, audio, subtitles, genre) ==
    IF media_type = "movie" /\ item.size # NoneInt /\ item.size < MinSize(media_type)
    THEN FALSE
    ELSE IF media_type = "tvshow" /\ item.size # NoneInt
            /\ item.size < MinSize(media_type)
    THEN FALSE
    ELSE IF media_type = "movie" /\ StrLen(item.cleaned_title) < 3 THEN FALSE
    ELSE IF Given(media_type) /\ item.media_type # media_type THEN FALSE
    ELSE IF Given(letter)
            /\ LET sort == Lower(item.sort_title)
                   first == IF sort = <<>> THEN "" ELSE FirstChar(sort[1])
               IN  IF letter = "0-9" THEN ~IsDigit(first) ELSE first # letter
    THEN FALSE
    ELSE IF Given(quality) /\ quality # "any" /\ item.quality # quality
            /\ ~(quality = "hd" /\ item.quality = "uhd")
    THEN FALSE
    ELSE IF Given(audio) /\ audio # "any"
            /\ ~(\E i \in 1..Len(item.audio_languages) : item.audio_languages[i] = audio)
    THEN FALSE
    ELSE IF Given(subtitles) /\ subtitles # "any"
            /\ ~(\E i \in 1..Len(item.subtitle_languages) :
                    item.subtitle_languages[i] = subtitles)
    THEN FALSE
    ELSE IF Given(genre) /\ genre # "any" /\ LowerTok(genre) \notin ItemGenres(item)
    THEN FALSE
    ELSE TRUE

\* the filter without its first test
_passes_filters_keeps_other(item, media_type, letter, quality, audio, subtitles, genre) ==
    PassesRest(item, media_type, letter, quality, audio, subtitles, genre)

\* the filter with an exact quality test: "hd" does not accept "uhd"
_passes_filters_exact_hd(item, media_type, letter, quality, audio, subtitles, genre) ==
    /\ item.media_type # "other"
    /\ PassesRest(item, media_type, letter, quality, audio, subtitles, genre)
    /\ (Given(quality) /\ quality # "any") => item.quality = quality

\* the filter with the requested kind left out
_passes_filters_any_kind(item, media_type, letter, quality, audio, subtitles, genre) ==
    IF item.media_type = "other" THEN FALSE
    ELSE PassesRest(item, None, letter, quality, audio, subtitles, genre)

_passes_filters(item, media_type, letter, quality, audio, subtitles, genre) ==
    IF item.media_type = "other" THEN FALSE
    ELSE PassesRest(item, media_type, letter, quality, audio, subtitles, genre)

(***************************************************************************)
(* metadata.py: TMDbMetadataProvider                                       *)
(***************************************************************************)
\* the tokens of a title that are not alphanumeric
Punctuation == {":", "-"}

\* _normalise: the title in lowercase without what is not a letter or a digit;
\* the words of the model share no letters across their borders, so the string
\* is kept as its words
_normalise(value) == Lower(SelectSeq(value, LAMBDA t : t \notin Punctuation))

\* a in b, for strings
IsSubstring(a, b) ==
    \E k \in 0..(Len(b) - Len(a)) : \A i \in 1..Len(a) : b[k + i] = a[i]

\* the score without the penalty for years that differ
_candidate_score_no_penalty(query, title, year) ==
    (IF _normalise(query.cleaned_title) = _normalise(title) THEN 80
     ELSE IF IsSubstring(_normalise(query.cleaned_title), _normalise(title))
             \/ IsSubstring(_normalise(title), _normalise(query.cleaned_title))
     THEN 50 ELSE 0)
    + (IF query.guessed_year # NoneInt /\ year # NoneInt
          /\ query.guessed_year - year \in {0 - 1, 0, 1}
       THEN 30 ELSE 0)
    + (IF query.media_type = "tvshow" /\ query.season # NoneInt THEN 10 ELSE 0)

_candidate_score(query, title, year) ==
    LET cleaned_query == _normalise(query.cleaned_title)
        cleaned_title == _normalise(title)
        by_title == IF cleaned_query = cleaned_title THEN 80
                    ELSE IF IsSubstring(cleaned_query, cleaned_title)
                            \/ IsSubstring(cleaned_title, cleaned_query)
                    THEN 50 ELSE 0
        by_year == IF query.guessed_year # NoneInt /\ year # NoneInt
                   THEN IF query.guessed_year - year \in {0 - 1, 0, 1} THEN 30
                        ELSE 0 - 20
                   ELSE 0
        by_season == IF query.media_type = "tvshow" /\ query.season # NoneInt
                     THEN 10 ELSE 0
    IN  by_title + by_year + by_season

(***************************************************************************)
(* metadata.py: MetadataManager                                            *)
(***************************************************************************)
ProviderOrders == {"tmdb_first", "csfd_first", "tmdb_only", "csfd_only", "none"}

\* MetadataManager.__init__: the providers, in the order they are asked
ManagerProviders(order, has_key) ==
    LET desired == CASE order = "tmdb_first" -> <<"tmdb", "csfd">>
                     [] order = "csfd_first" -> <<"csfd", "tmdb">>
                     [] order = "tmdb_only" -> <<"tmdb">>
                     [] order = "csfd_only" -> <<"csfd">>
                     [] order = "none" -> <<>>
                     [] OTHER -> <<"tmdb", "csfd">>
    IN  SelectSeq(desired, LAMBDA n : n = "csfd" \/ (n = "tmdb" /\ has_key))

\* MetadataManager.__init__ returns before it sets _cache when the order is "none"
ManagerHasCache(order) == order # "none"

\* what a provider's enrich does for one item: finds nothing, fails, or matches
Outcomes == {"none", "raise", "match"}

\* the dict a provider builds on a match
ProviderAnswer(name) ==
    IF name = "tmdb"
    THEN [none |-> FALSE, keys |-> DictKeys,
          val |-> [title |-> <<"Heat">>, year |-> 1995, genres |-> <<"Action">>,
                   provider |-> "TMDb"]]
    ELSE [none |-> FALSE, keys |-> DictKeys,
          val |-> [title |-> <<"Show">>, year |-> 2009, genres |-> <<"Drama">>,
                   provider |-> "CSFD"]]

\* the dict a provider builds on a match whose detail page lists no genre
BareAnswer(name) == [ProviderAnswer(name) EXCEPT !.val.genres = <<>>]

\* the outcomes with the match without genres
GenreOutcomes == Outcomes \cup {"bare"}

\* a provider failure that leaves enrich
TryProviderPropagates(name, out) ==
    IF out = "raise" THEN [metadata |-> NoneDict, raised |-> TRUE]
    ELSE IF out = "match" THEN [metadata |-> ProviderAnswer(name), raised |-> FALSE]
    ELSE IF out = "bare" THEN [metadata |-> BareAnswer(name), raised |-> FALSE]
    ELSE [metadata |-> NoneDict, raised |-> FALSE]

\* the try/except around provider.enrich(item)
TryProvider(name, out) ==
    IF out = "raise" THEN [metadata |-> NoneDict, raised |-> FALSE]
    ELSE IF out = "match" THEN [metadata |-> ProviderAnswer(name), raised |-> FALSE]
    ELSE IF out = "bare" THEN [metadata |-> BareAnswer(name), raised |-> FALSE]
    ELSE [metadata |-> NoneDict, raised |-> FALSE]

\* the provider loop without its break
RECURSIVE QueryProvidersNoBreak(_, _, _, _, _)
QueryProvidersNoBreak(provs, out, i, done, last) ==
    IF i > Len(provs) THEN [metadata |-> last, called |-> done, raised |-> FALSE]
    ELSE LET r == TryProvider(provs[i], out[i])
         IN  QueryProvidersNoBreak(provs, out, i + 1, Append(done, provs[i]),
                                   IF Truthy(r.metadata) THEN r.metadata ELSE last)

\* the provider loop of enrich from provider i on: the metadata it ends with and
\* the providers it called
RECURSIVE QueryProviders(_, _, _, _, _)
QueryProviders(provs, out, i, done, last) ==
    IF i > Len(provs) THEN [metadata |-> last, called |-> done, raised |-> FALSE]
    ELSE LET r == TryProvider(provs[i], out[i])
         IN  IF r.raised
             THEN [metadata |-> NoneDict, called |-> Append(done, provs[i]),
                   raised |-> TRUE]
             ELSE IF Truthy(r.metadata)
             THEN [metadata |-> r.metadata, called |-> Append(done, provs[i]),
                   raised |-> FALSE]
             ELSE QueryProviders(provs, out, i + 1, Append(done, provs[i]), r.metadata)

cache_key(it) ==
    <<it.media_type, Lower(it.cleaned_title), it.guessed_year, it.season>>

CachePut(c, key, value) ==
    [k \in DOMAIN c \cup {key} |-> IF k = key THEN value ELSE c[k]]

\* enrich that asks the providers although the key is cached
CacheLookupNever(c, key) == FALSE

\* cache_key in self._cache
CacheLookup(c, key) == key \in DOMAIN c

\* enrich on a cached key: the cached value is applied if it is a match
EnrichCached(it, c, found) ==
    [ret |-> found,
     item |-> IF Truthy(found) THEN apply_metadata(it, found) ELSE it,
     cache |-> c, called |-> <<>>, raised |-> FALSE, hit |-> TRUE]

\* enrich on a key that is not cached, the provider loop having ended as q
EnrichQueried(it, c, q) ==
    IF q.raised
    THEN [ret |-> NoneDict, item |-> it, cache |-> c, called |-> q.called,
          raised |-> TRUE, hit |-> FALSE]
    ELSE [ret |-> q.metadata,
          item |-> IF Truthy(q.metadata) THEN apply_metadata(it, q.metadata) ELSE it,
          cache |-> CachePut(c, cache_key(it), q.metadata),
          called |-> q.called, raised |-> FALSE, hit |-> FALSE]

\* MetadataManager.enrich: what it returns, the item and the cache after it, the
\* providers it called, and whether it raised (it does when _cache was never set)
ManagerEnrich(it, provs, cached, c, out) ==
    IF ~cached
    THEN [ret |-> NoneDict, item |-> it, cache |-> c, called |-> <<>>,
          raised |-> TRUE, hit |-> FALSE]
    ELSE IF CacheLookup(c, cache_key(it))
    THEN EnrichCached(it, c, c[cache_key(it)])
    ELSE EnrichQueried(it, c, QueryProviders(provs, out, 1, <<>>, NoneDict))

(***************************************************************************)
(* settings.py, webshare_api.py                                            *)
(***************************************************************************)
\* AddonSettings.load: page_size
SettingsPageSize(raw) == Max(20, Min(100, raw))

\* WebshareAPI.search: the limit and the offset it sends
SearchLimitAsAsked(n) == Max(1, n)
SearchLimit(n) == Max(1, Min(100, n))
SearchOffset(n) == Max(0, n)

(***************************************************************************)
(* The records of the upstream, the requests of the callers                *)
(***************************************************************************)
MovieRecord == Payload("f1", <<"Heat", "1995", "1080p", "CZ">>, 700 * MiB)
EpisodeRecord == Payload("f2", <<"Show", "S01E02", "720p">>, 300 * MiB)
TrailerRecord == Payload("f3", <<"Heat", "Trailer">>, 20 * MiB)
OtherRipRecord == Payload("f4", <<"Heat", "1995", "720p">>, 400 * MiB)

RawRecords == {MovieRecord, EpisodeRecord, TrailerRecord}

\* the records whose items are enriched directly: two of them share a cache key
EnrichRecords == RawRecords \cup {OtherRipRecord}

\* records without a required field: data.get("ident", "") and data.get("name", "")
\* are "" for a tag that is missing or empty
NoIdentRecord == Payload("", <<"Heat", "1995">>, 700 * MiB)
NoNameRecord == Payload("f6", <<>>, 700 * MiB)

\* records one byte below a minimum size, of exactly a minimum size, and without
\* a size (int(data["size"]) if the tag is there, else None)
SmallMovieRecord == Payload("f7", <<"Heat", "1995">>, 100 * MiB - 1)
ThresholdMovieRecord == Payload("f8", <<"Heat", "1995">>, 100 * MiB)
UnsizedMovieRecord == Payload("f9", <<"Heat", "1995">>, NoneInt)
SmallEpisodeRecord == Payload("f10", <<"Show", "S01E02">>, 50 * MiB - 1)
ThresholdEpisodeRecord == Payload("f11", <<"Show", "S01E02">>, 50 * MiB)
SizeRecords ==
    {SmallMovieRecord, ThresholdMovieRecord, UnsizedMovieRecord, SmallEpisodeRecord,
     ThresholdEpisodeRecord}

\* a movie whose cleaned title has two characters
ShortTitleRecord == Payload("f12", <<"Up", "2009">>, 700 * MiB)

\* movies of the qualities uhd and sd (MovieRecord is hd, ThresholdMovieRecord has
\* no quality in its name)
UhdRecord == Payload("f13", <<"Dragon", "2160p", "EN">>, 700 * MiB)
SdRecord == Payload("f14", <<"Heat", "1995", "DVDRip">>, 700 * MiB)

\* every record of the model
ModelRecords ==
    EnrichRecords \cup {NoIdentRecord, NoNameRecord} \cup SizeRecords
        \cup {ShortTitleRecord, UhdRecord, SdRecord}

\* parse_media_entry of the records of the model
ParsedRecords == [p \in ModelRecords |-> parse_media_entry(p)]
Parsed(p) == ParsedRecords[p]

\* the responses to one search: at most the records asked for
FileLists(recs, n) ==
    UNION {[1..k -> recs] : k \in 0..Min(n, MaxFiles)}

KindFilters == {None, "movie", "tvshow"}
QualityFilters == {None}
StartOffsets == {0 - 1, 1}
PageSizes == {NoneInt, 1, 2}
RawPageSizes == {40}

Requests ==
    [media_type : KindFilters, letter : {None}, quality : QualityFilters,
     audio : {None}, subtitles : {None}, genre : {None},
     start_offset : StartOffsets, page_size : PageSizes]

\* catalogue.fetch(media_type=kind, quality=quality, page_size=page): a call from
\* the first page on, the other filters left out
Request(kind, quality, page) ==
    [media_type |-> kind, letter |-> None, quality |-> quality, audio |-> None,
     subtitles |-> None, genre |-> None, start_offset |-> 0, page_size |-> page]

\* an upstream that holds records without ident or name, listed without a kind
\* filter and as movies
MalformedListing ==
    [records |-> {MovieRecord, NoIdentRecord, NoNameRecord},
     requests |-> {Request(k, None, NoneInt) : k \in {None, "movie"}}]

\* callers that ask for a page of no items, and for a page of one
ZeroPageListing ==
    [records |-> {MovieRecord, EpisodeRecord},
     requests |-> {Request(None, None, n) : n \in {0, 1}}]

\* upstreams of records at and around the minimum sizes, listed by kind
SizeListings ==
    {[records |-> recs, requests |-> {Request(k, None, NoneInt) : k \in KindFilters}] :
        recs \in {{ThresholdMovieRecord}, {ThresholdEpisodeRecord},
                  {SmallMovieRecord, UnsizedMovieRecord, SmallEpisodeRecord}}}

\* an upstream with a movie of a two-character title, listed by kind
ShortTitleListing ==
    [records |-> {ShortTitleRecord, MovieRecord},
     requests |-> {Request(k, None, NoneInt) : k \in KindFilters}]

\* an upstream of movies and episodes, listed by kind
KindListing ==
    [records |-> {MovieRecord, EpisodeRecord},
     requests |-> {Request(k, None, NoneInt) : k \in KindFilters}]

\* the quality filters of the plugin's menus
QualityChoices == {None, "any", "hd", "uhd", "sd"}

\* upstreams of one quality each, and one of all, listed by quality
QualityListings ==
    {[records |-> recs, requests |-> {Request(None, q, NoneInt) : q \in QualityChoices}] :
        recs \in {{UhdRecord}, {MovieRecord}, {SdRecord}, {ThresholdMovieRecord},
                  {UhdRecord, SdRecord, ThresholdMovieRecord}}}

\* the upstreams and the callers of the listings of the model
Listings ==
    {MalformedListing, ZeroPageListing, ShortTitleListing, KindListing}
        \cup SizeListings \cup QualityListings

\* the genre filters of the model
GenreChoices == {"Action", "fantasy"}

\* upstreams of a movie with a genre keyword in its name and of one without,
\* listed by genre
GenreListings ==
    {[records |-> recs,
      requests |-> {[Request(None, None, NoneInt) EXCEPT !.genre = g] :
                       g \in GenreChoices}] :
        recs \in {{UhdRecord}, {MovieRecord}, {UhdRecord, MovieRecord}}}

\* the provider orders of a catalogue that has a manager
CatalogueOrders == {"tmdb_only"}

(***************************************************************************)
(* State                                                                   *)
(***************************************************************************)
VARIABLES
    upstream,           \* the records the upstream holds
    callers,            \* the fetch requests the callers of the catalogue make
    settings_page_size, \* AddonSettings.page_size
    has_manager,        \* WebshareCatalogue._metadata is not None
    providers,          \* MetadataManager._providers (their names)
    has_cache,          \* MetadataManager._cache is set
    cache,              \* MetadataManager._cache
    pc,                 \* where the fetch call is: idle, search, enrich, done, failed
    req,                \* the arguments of the fetch call
    limit, gathered, offset, total, \* the locals of fetch
    files,              \* the records of the current response from the one enrich is at
    chunk,              \* len(files) of the current response
    nreq,               \* upstream requests issued in this call
    raw,                \* raw records returned by the upstream in this call
    last_len,           \* len(files) of the last response, NoneInt before it
    sent,               \* the limit and offset of the last request
    err_at,             \* the number of the request that failed, NoneInt if none
    result,             \* what fetch returned
    item,               \* the item last enriched or merged into
    called, outs, ret, raised, hit, \* the last enrich: providers called, their
                        \* outcomes, the value returned, raised?, served from cache?
    asked,              \* per cache key, the enrich calls that asked a provider
    before, data,       \* the last apply_metadata: the metadata before it, its argument
    candidate,          \* the title and year of the TMDb result scored last
    score,              \* what _candidate_score returned for it
    scored,             \* the list scored of _search: the results with their scores
    chosen,             \* what _search returned
    shelf,              \* the records of an upstream that does not change, in its order
    walked              \* the items of the pages a caller has walked through so far

confvars ==
    <<upstream, callers, shelf, settings_page_size, has_manager, providers, has_cache>>
fetchvars == <<pc, req, limit, gathered, offset, total, files, chunk, nreq, raw,
               last_len, sent, err_at, result>>
enrichvars == <<item, called, outs, ret, raised, hit, asked>>
mergevars == <<before, data>>
scorevars == <<candidate, score, scored, chosen>>
walkvars == <<walked>>
vars == <<confvars, cache, fetchvars, enrichvars, mergevars, scorevars, walkvars>>

NoResult == [items |-> <<>>, next_offset |-> NoneInt, total |-> NoneInt,
             has_more |-> FALSE]
NoRequest == [media_type |-> None, letter |-> None, quality |-> None, audio |-> None,
              subtitles |-> None, genre |-> None, start_offset |-> 0,
              page_size |-> NoneInt]
NoSent == [limit |-> NoneInt, offset |-> NoneInt]
EmptyCache == [k \in {} |-> NoneDict]
NoCandidate == [title |-> <<>>, year |-> NoneInt]
\* what stands in chosen before _search returns, and the None it returns; pos is
\* the place of a result in the results of the provider
NotChosen == [title |-> <<>>, year |-> NoneInt, score |-> 0, pos |-> 0]
NoneChosen == [title |-> <<>>, year |-> NoneInt, score |-> 0, pos |-> NoneInt]
NoItem == parse_media_entry(Payload("", <<>>, NoneInt))

\* a counter of the model: it stops counting at MaxCount
Bump(n, k) == Min(n + k, MaxCount)

(***************************************************************************)
(* catalogue.py: WebshareCatalogue.fetch                                   *)
(***************************************************************************)
\* has_more computed with <= for <
HasMoreInclusive(t, off) == IF t = NoneInt \/ t = 0 THEN FALSE ELSE off <= t

\* bool(total and offset < total)
HasMore(t, off) == IF t = NoneInt \/ t = 0 THEN FALSE ELSE off < t

\* the tuple fetch returns
Return(g, off, t) ==
    [items |-> g, next_offset |-> off,
     total |-> IF t = NoneInt \/ t = 0 THEN 0 ELSE t,
     has_more |-> HasMore(t, off)]

\* limit = page_size or self._settings.page_size
PageLimit(page_size, default) ==
    IF page_size = NoneInt \/ page_size = 0 THEN default ELSE page_size

\* fetch_size = max(default_fetch_size, limit)
FetchSize(default, lim) == Max(default, lim)

\* the offset left where it was
AdvanceOffsetStuck(off, n) == off

\* the offset advanced by the accepted items instead of the raw records
AdvanceOffsetAccepted(off, n) == Max(0, req.start_offset) + Len(gathered')

\* the offset advanced by half of the records of the response
AdvanceOffsetByHalf(off, n) == off + (n \div 2)

\* offset += len(files)
AdvanceOffset(off, n) == off + n

\* the loop going on until the upstream is exhausted, however many are gathered
LoopGoesOnUnbounded(g, lim) == TRUE

\* while len(gathered) < limit
LoopGoesOn(g, lim) == Len(g) < lim

\* a failed search answered by another try
OnSearchErrorRetry == "search"

\* an exception of self._api.search leaves fetch: the call has failed
OnSearchError == "failed"

\* fetch up to its first upstream request
Begin(r) ==
    /\ req' = r
    /\ limit' = PageLimit(r.page_size, settings_page_size)
    /\ gathered' = <<>>
    /\ offset' = Max(0, r.start_offset)
    /\ total' = NoneInt
    /\ files' = <<>>
    /\ chunk' = 0
    /\ nreq' = 0
    /\ raw' = 0
    /\ last_len' = NoneInt
    /\ sent' = NoSent
    /\ err_at' = NoneInt
    /\ IF LoopGoesOn(gathered', limit')
       THEN pc' = "search" /\ result' = NoResult
       ELSE pc' = "done" /\ result' = Return(gathered', offset', total')
    /\ UNCHANGED <<confvars, cache, enrichvars, mergevars, scorevars>>

\* a fetch call of a caller that is not inside one
Call(r) ==
    /\ pc \in {"idle", "done", "failed"}
    /\ Begin(r)
    /\ UNCHANGED walkvars

\* self._api.search raises WebshareError
SearchFails ==
    /\ pc = "search"
    /\ sent' = [limit |-> SearchLimit(FetchSize(settings_page_size, limit)),
                offset |-> SearchOffset(offset)]
    /\ nreq' = Bump(nreq, 1)
    /\ err_at' = nreq'
    /\ pc' = OnSearchError
    /\ result' = NoResult
    /\ UNCHANGED <<confvars, cache, req, limit, gathered, offset, total, files, chunk,
                   raw, last_len, enrichvars, mergevars, scorevars, walkvars>>

\* if self._metadata: self._metadata.enrich(item)
Enriched(it, c, out) ==
    IF has_manager THEN ManagerEnrich(it, providers, has_cache, c, out)
    ELSE [ret |-> NoneDict, item |-> it, cache |-> c, called |-> <<>>,
          raised |-> FALSE, hit |-> FALSE]

\* the body of the for loop for an enriched item: gathered after it
Gather(g, it) ==
    IF _passes_filters(it, req.media_type, req.letter, req.quality, req.audio,
                       req.subtitles, req.genre)
    THEN Append(g, it) ELSE g

RECURSIVE Scan(_, _, _)
\* the for loop after the record at the head of fs, from gathered g and cache c:
\* it breaks on a full page and goes on to the next record otherwise
AfterItem(fs, g, c) ==
    IF Len(g) >= limit
    THEN [files |-> <<>>, gathered |-> g, cache |-> c, wait |-> FALSE, raised |-> FALSE]
    ELSE Scan(Tail(fs), g, c)

\* the for loop after enrich ended as e for the record at the head of fs
AfterEnrich(fs, g, c, e) ==
    IF e.raised
    THEN [files |-> fs, gathered |-> g, cache |-> c, wait |-> FALSE, raised |-> TRUE]
    ELSE AfterItem(fs, Gather(g, e.item), e.cache)

\* the for loop over the records fs, from gathered g and cache c, as far as it
\* goes without asking a provider: to the end of fs, to a full page (break), to
\* an exception of enrich, or to the record (wait) enrich must ask a provider for
Scan(fs, g, c) ==
    IF fs = <<>>
    THEN [files |-> fs, gathered |-> g, cache |-> c, wait |-> FALSE, raised |-> FALSE]
    ELSE IF has_manager /\ has_cache /\ providers # <<>>
            /\ ~CacheLookup(c, cache_key(Parsed(Head(fs))))
    THEN [files |-> fs, gathered |-> g, cache |-> c, wait |-> TRUE, raised |-> FALSE]
    ELSE AfterEnrich(fs, g, c, Enriched(Parsed(Head(fs)), c, <<>>))

\* the rest of one round of the while loop, after the for loop went as far as s
\* in a response of n records that reported the total t
AfterScan(s, n, t) ==
    /\ gathered' = s.gathered
    /\ cache' = s.cache
    /\ files' = s.files
    /\ IF s.raised
       THEN pc' = "failed" /\ result' = NoResult /\ UNCHANGED offset
       ELSE IF s.wait
       THEN pc' = "enrich" /\ result' = NoResult /\ UNCHANGED offset
       ELSE LET off == AdvanceOffset(offset, n)
            IN  /\ offset' = off
                /\ IF (t # NoneInt /\ off >= t) \/ ~LoopGoesOn(s.gathered, limit)
                   THEN pc' = "done" /\ result' = Return(s.gathered, off, t)
                   ELSE pc' = "search" /\ result' = NoResult

\* self._api.search returns (total, files): an empty response ends the loop, the
\* records of another are visited up to the first one a provider is asked for
SearchResponds(t, fs) ==
    /\ pc = "search"
    /\ sent' = [limit |-> SearchLimit(FetchSize(settings_page_size, limit)),
                offset |-> SearchOffset(offset)]
    /\ nreq' = Bump(nreq, 1)
    /\ total' = t
    /\ last_len' = Len(fs)
    /\ raw' = Bump(raw, Len(fs))
    /\ chunk' = Len(fs)
    /\ IF fs = <<>>
       THEN /\ pc' = "done" /\ result' = Return(gathered, offset, t)
            /\ UNCHANGED <<gathered, offset, cache, files>>
       ELSE AfterScan(Scan(fs, gathered, cache), Len(fs), t)
    /\ UNCHANGED <<confvars, req, limit, err_at, enrichvars, mergevars, scorevars, walkvars>>

\* the providers answer for the record at the head of files; the for loop goes on
ProvidersAnswer(out) ==
    /\ pc = "enrich"
    /\ AfterScan(AfterEnrich(files, gathered, cache,
                             Enriched(Parsed(Head(files)), cache, out)),
                 chunk, total)
    /\ UNCHANGED <<confvars, req, limit, total, chunk, nreq, raw, last_len, sent,
                   err_at, enrichvars, mergevars, scorevars, walkvars>>

(***************************************************************************)
(* The catalogue of the plugin: fetch calls against any upstream           *)
(***************************************************************************)
\* the state before the first call: a manager built for order, with or without a
\* TMDb API key, and handed on (managed) or not, the upstream holding recs and the
\* callers making the requests reqs
StartBuilt(order, has_key, recs, reqs, static, managed) ==
    /\ upstream = recs
    /\ callers = reqs
    /\ shelf = static
    /\ walked = <<>>
    /\ settings_page_size \in {SettingsPageSize(n) : n \in RawPageSizes}
    /\ has_manager = managed
    /\ providers = ManagerProviders(order, has_key)
    /\ has_cache = ManagerHasCache(order)
    /\ cache = EmptyCache
    /\ pc = "idle"
    /\ req = NoRequest
    /\ limit = 0 /\ gathered = <<>> /\ offset = 0 /\ total = NoneInt
    /\ files = <<>> /\ chunk = 0 /\ nreq = 0 /\ raw = 0
    /\ last_len = NoneInt /\ sent = NoSent /\ err_at = NoneInt
    /\ result = NoResult
    /\ item = NoItem /\ called = <<>> /\ outs = <<>> /\ ret = NoneDict
    /\ raised = FALSE /\ hit = FALSE /\ asked = [k \in {} |-> 0]
    /\ before = EmptyDict /\ data = EmptyDict
    /\ candidate = NoCandidate /\ score = 0
    /\ scored = <<>> /\ chosen = NotChosen

\* the state of the plugin before its first call; plugin.py: the catalogue gets
\* no manager when the order is "none"
StartOn(order, has_key, recs, reqs, static) ==
    StartBuilt(order, has_key, recs, reqs, static, order # "none")

\* the same before an upstream that answers anything
StartWith(order, has_key, recs, reqs) == StartOn(order, has_key, recs, reqs, <<>>)

Start(order, has_key) == StartWith(order, has_key, RawRecords, Requests)

\* the plugin with the metadata provider set to "none": the catalogue has no manager
Init == Start("none", FALSE)

\* the upstream answers the request of the call with a total and records
Responds ==
    /\ pc = "search"
    /\ \E t \in 0..MaxTotal :
          \E fs \in FileLists(upstream, SearchLimit(FetchSize(settings_page_size, limit))) :
             SearchResponds(t, fs)

Next ==
    \/ \E r \in callers : Call(r)
    \/ SearchFails
    \/ Responds

Spec == Init /\ [][Next]_vars

\* every started fetch call is run on: its requests are answered or fail
FairSpec == Spec /\ WF_vars(SearchFails \/ Responds)

\* the plugin with a metadata provider set: the catalogue enriches what it fetches
InitManaged == \E order \in CatalogueOrders : Start(order, TRUE)

NextManaged ==
    \/ Next
    \/ \E out \in [1..Len(providers) -> Outcomes] : ProvidersAnswer(out)

SpecManaged == InitManaged /\ [][NextManaged]_vars

\* the plugin without a manager, listing one of the upstreams of Listings
InitListing == \E l \in Listings : StartWith("none", FALSE, l.records, l.requests)

SpecListing == InitListing /\ [][Next]_vars

\* the plugin with TMDb as its provider, listing by genre
InitGenre ==
    \E l \in GenreListings : StartWith("tmdb_only", TRUE, l.records, l.requests)

NextGenre ==
    \/ Next
    \/ \E out \in [1..Len(providers) -> GenreOutcomes] : ProvidersAnswer(out)

SpecGenre == InitGenre /\ [][NextGenre]_vars

(***************************************************************************)
(* A caller that walks the pages of an upstream that does not change       *)
(***************************************************************************)
ShelfRecords == {MovieRecord, TrailerRecord, OtherRipRecord, EpisodeRecord}

\* the upstreams walked: up to MaxShelf different records in any order
Shelves ==
    {sh \in UNION {[1..k -> ShelfRecords] : k \in 0..MaxShelf} :
        \A i, j \in 1..Len(sh) : sh[i] = sh[j] => i = j}

\* the first call of a walk: show_browse with offset 0
WalkRequests == {Request(k, None, n) : k \in {None, "movie"}, n \in {NoneInt, 1, 2}}

InitWalk ==
    \E sh \in Shelves : \E r \in WalkRequests :
       StartOn("none", FALSE, {sh[i] : i \in 1..Len(sh)}, {r}, sh)

\* what the upstream answers to a search with this limit and offset: its total,
\* and its records from the offset on, at most limit and at most MaxFiles of them
StaticFiles(lim, off) ==
    SubSeq(shelf, off + 1, Min(Len(shelf), off + Min(lim, MaxFiles)))

StaticResponds ==
    /\ pc = "search"
    /\ SearchResponds(Len(shelf),
                      StaticFiles(SearchLimit(FetchSize(settings_page_size, limit)),
                                  SearchOffset(offset)))

\* the upstream answers with its total and no record, whatever the offset is
StaticStalls ==
    /\ pc = "search"
    /\ SearchResponds(Len(shelf), <<>>)

\* the caller opens the listing: fetch from offset 0
WalkFirst ==
    /\ pc = "idle"
    /\ \E r \in callers : Begin(r)
    /\ walked' = <<>>

\* the caller opens the next page: fetch with the same filters from the
\* next_offset of the page before, as long as that page came with has_more
WalkOn ==
    /\ pc = "done"
    /\ result.has_more
    /\ Begin([req EXCEPT !.start_offset = result.next_offset])
    /\ walked' = walked \o result.items

NextWalk ==
    \/ StaticStalls
    \/ StaticResponds
    \/ WalkFirst
    \/ WalkOn

SpecWalk == InitWalk /\ [][NextWalk]_vars

\* every started page of a walk is answered
FairSpecWalk == SpecWalk /\ WF_vars(NextWalk)

(***************************************************************************)
(* The manager of the plugin: enrich calls on newly parsed items           *)
(***************************************************************************)
\* what an enrich call that ended as e for the cache key k leaves behind
EnrichEnds(e, k, out) ==
    /\ item' = e.item
    /\ cache' = e.cache
    /\ called' = e.called
    /\ outs' = out
    /\ ret' = e.ret
    /\ raised' = e.raised
    /\ hit' = e.hit
    /\ asked' = IF e.called = <<>> THEN asked
                ELSE CachePut(asked, k,
                              Bump(IF k \in DOMAIN asked THEN asked[k] ELSE 0, 1))

\* MetadataManager.enrich(item) on a newly parsed item, the providers answering out
EnrichCall(p, out) ==
    /\ has_manager
    /\ EnrichEnds(ManagerEnrich(Parsed(p), providers, has_cache, cache, out),
                  cache_key(Parsed(p)), out)
    /\ UNCHANGED <<confvars, fetchvars, mergevars, scorevars, walkvars>>

InitEnrich == \E order \in ProviderOrders : \E has_key \in BOOLEAN : Start(order, has_key)

NextEnrich ==
    \E p \in EnrichRecords : \E out \in [1..Len(providers) -> Outcomes] : EnrichCall(p, out)

SpecEnrich == InitEnrich /\ [][NextEnrich]_vars

\* callers that ask from offsets below and above 0, for pages of the default size
\* and of more than the upstream serves in one response
ClampRequests ==
    [media_type : {None, "movie"}, letter : {None}, quality : {None},
     audio : {None}, subtitles : {None}, genre : {None},
     start_offset : {0 - 1, 0, 1}, page_size : {NoneInt, 150}]

InitClamp == StartWith("none", FALSE, RawRecords, ClampRequests)

SpecClamp == InitClamp /\ [][Next]_vars

\* a MetadataManager built for any order, "none" as well, and called by itself
InitResolver ==
    \E order \in ProviderOrders : \E has_key \in BOOLEAN :
       StartBuilt(order, has_key, RawRecords, Requests, <<>>, TRUE)

SpecResolver == InitResolver /\ [][NextEnrich]_vars

(***************************************************************************)
(* An item and the metadata merged into it                                 *)
(***************************************************************************)
\* the dicts merged: nothing, an empty dict, the answers of the providers, and
\* dicts that hold some of the keys only
DataMaps ==
    {NoneDict, EmptyDict, ProviderAnswer("tmdb"), ProviderAnswer("csfd"),
     [none |-> FALSE, keys |-> {"genres"},
      val |-> [EmptyVal EXCEPT !.genres = <<"Drama">>]],
     [none |-> FALSE, keys |-> {"title", "provider"},
      val |-> [EmptyVal EXCEPT !.title = <<"Heat", "2">>, !.provider = "CSFD"]]}

\* parse_media_entry builds an item: its metadata is empty
Build(p) ==
    /\ item' = Parsed(p)
    /\ before' = EmptyDict
    /\ data' = NoneDict
    /\ UNCHANGED <<confvars, cache, fetchvars, called, outs, ret, raised, hit, asked,
                   scorevars, walkvars>>

\* item.apply_metadata(d)
Merge(d) ==
    /\ item # NoItem
    /\ item' = apply_metadata(item, d)
    /\ before' = item.metadata
    /\ data' = d
    /\ UNCHANGED <<confvars, cache, fetchvars, called, outs, ret, raised, hit, asked,
                   scorevars, walkvars>>

NextMerge ==
    \/ \E p \in EnrichRecords : Build(p)
    \/ \E d \in DataMaps : Merge(d)

SpecMerge == Init /\ [][NextMerge]_vars

(***************************************************************************)
(* The parser, applied to file names                                       *)
(***************************************************************************)
\* the file names of tests/test_parser.py, split at their dots and hyphens
AwesomeMovieName ==
    <<"Awesome", "Movie", "2021", "1080p", "BluRay", "x264", "CZ", "ENG", "DTS",
      "GROUP", "mkv">>
FavoriteShowName ==
    <<"My", "Favorite", "Show", "S03E04", "The", "Episode", "Title", "720p", "WEB",
      "DL", "SK", "AAC", "mkv">>
MovieTitleName == <<"Movie", "Title", "2023", "1080p", "x264", "GROUP">>
SeriesPartName == <<"My", "Series", "Part01", "mkv">>
MovieCdName == <<"My", "Movie", "CD1", "mkv">>
TestNames ==
    {AwesomeMovieName, FavoriteShowName, MovieTitleName, SeriesPartName, MovieCdName}

\* the words of the generated file names
NameWords ==
    {"My", "Movie", "Series", "Part01", "CD1", "mkv", "S01E02", "Title", "1080p", "...",
     "2x05", "2160p", "DVDRip", "HDTV", "Trailer", "Season1"}

\* the file names parsed: those of the tests and every name of at most MaxNameLen
\* words
ParseNames == TestNames \cup UNION {[1..k -> NameWords] : k \in 0..MaxNameLen}

\* the upstream holds one record, of one of the names
InitParse ==
    \E name \in ParseNames :
       StartWith("none", FALSE, {Payload("f0", name, 700 * MiB)}, {})

\* item = parse_media_entry(payload, self._logger)
Parse(p) ==
    /\ item' = parse_media_entry(p)
    /\ UNCHANGED <<confvars, cache, fetchvars, called, outs, ret, raised, hit, asked,
                   mergevars, scorevars, walkvars>>

NextParse == \E p \in upstream : Parse(p)

SpecParse == InitParse /\ [][NextParse]_vars

(***************************************************************************)
(* The candidates of a TMDb search, scored for a query item                *)
(***************************************************************************)
\* the titles and the years of the queries and of the candidates
ScoreTitles ==
    {<<"Matrix">>, <<"The", "Matrix">>, <<"Matrix", "Reloaded">>,
     <<"The", ":", "MATRIX">>, <<"Heat">>}
QueryYears == {NoneInt, 1999, 2003}
CandidateYears == {NoneInt, 1999, 2000, 2003}

\* the kinds and seasons of the queries: an item with a season is a TV item
QueryKinds == {<<"movie", NoneInt>>, <<"tvshow", NoneInt>>, <<"tvshow", 1>>}

\* the items scored against: what _candidate_score reads of them
QueryItems ==
    {[NoItem EXCEPT !.cleaned_title = t, !.guessed_year = y, !.media_type = k[1],
                    !.season = k[2]] :
        t \in ScoreTitles, y \in QueryYears, k \in QueryKinds}

\* _search(media_type, item) up to its loop over the results
TMDbSearch(query) ==
    /\ item' = query
    /\ candidate' = NoCandidate
    /\ score' = 0
    /\ scored' = <<>>
    /\ chosen' = NotChosen
    /\ UNCHANGED <<confvars, cache, fetchvars, called, outs, ret, raised, hit, asked,
                   mergevars, walkvars>>

\* score = self._candidate_score(item, title_field, year_field) for one result
Score(title, year) ==
    /\ item # NoItem
    /\ candidate' = [title |-> title, year |-> year]
    /\ score' = _candidate_score(item, title, year)
    /\ UNCHANGED <<confvars, cache, fetchvars, enrichvars, mergevars, walkvars,
                   scored, chosen>>

NextScore ==
    \/ \E query \in QueryItems : TMDbSearch(query)
    \/ \E title \in ScoreTitles : \E year \in CandidateYears : Score(title, year)

SpecScore == Init /\ [][NextScore]_vars

(***************************************************************************)
(* The choice of _search among the results of a TMDb search                *)
(***************************************************************************)
\* the queries searched for
SelectQueries ==
    {[NoItem EXCEPT !.cleaned_title = <<"Matrix">>, !.guessed_year = y,
                    !.media_type = "movie"] : y \in {NoneInt, 1999}}

\* the titles and the years of the results of the provider
ResultTitles == {<<"Matrix">>, <<"The", "Matrix">>, <<"Heat">>}
ResultYears == {NoneInt, 1999, 2003}

\* the list with entry put before the entries of its score and of lower scores
SortInsertBeforeTies(sorted, entry) ==
    LET ahead == {i \in 1..Len(sorted) : sorted[i].score > entry.score}
    IN  SubSeq(sorted, 1, Cardinality(ahead)) \o <<entry>>
           \o SubSeq(sorted, Cardinality(ahead) + 1, Len(sorted))

\* list.sort(key=score, reverse=True), one entry at a time: the sort is stable,
\* so an entry comes after the entries of its score that stood before it
SortInsert(sorted, entry) ==
    LET ahead == {i \in 1..Len(sorted) : sorted[i].score >= entry.score}
    IN  SubSeq(sorted, 1, Cardinality(ahead)) \o <<entry>>
           \o SubSeq(sorted, Cardinality(ahead) + 1, Len(sorted))

RECURSIVE SortByScore(_)
SortByScore(list) ==
    IF list = <<>> THEN <<>>
    ELSE SortInsert(SortByScore(SubSeq(list, 1, Len(list) - 1)), list[Len(list)])

\* the search for a query is sent
SearchFor(query) ==
    /\ item = NoItem
    /\ TMDbSearch(query)

\* one round of the loop of _search over data["results"]: the result is scored
\* and appended to scored
ScoreResult(title, year) ==
    /\ item # NoItem /\ chosen = NotChosen
    /\ Len(scored) < MaxResults
    /\ candidate' = [title |-> title, year |-> year]
    /\ score' = _candidate_score(item, title, year)
    /\ scored' = Append(scored, [title |-> title, year |-> year,
                                 score |-> _candidate_score(item, title, year),
                                 pos |-> Len(scored) + 1])
    /\ UNCHANGED <<confvars, cache, fetchvars, enrichvars, mergevars, walkvars, chosen>>

\* the results are over: scored.sort(...); return scored[0] if scored else None
\* (None as well when the provider has no result)
SelectTop ==
    /\ item # NoItem /\ chosen = NotChosen
    /\ scored' = SortByScore(scored)
    /\ chosen' = IF scored = <<>> THEN NoneChosen ELSE SortByScore(scored)[1]
    /\ UNCHANGED <<confvars, cache, fetchvars, enrichvars, mergevars, walkvars,
                   candidate, score>>

NextSelect ==
    \/ \E query \in SelectQueries : SearchFor(query)
    \/ \E title \in ResultTitles : \E year \in ResultYears : ScoreResult(title, year)
    \/ SelectTop

SpecSelect == Init /\ [][NextSelect]_vars

(***************************************************************************)
(* Properties of fetch                                                     *)
(***************************************************************************)
Finished == pc \in {"done", "failed"}

\* the items fetch returned
Items == result.items

\* C1: with the reported totals bounded by MaxTotal, every fetch call terminates:
\* a call that is about to issue a request has issued fewer than MaxTotal of them
\* (one at most when MaxTotal is 0), and every started call ends, by returning or
\* by failing
FetchTerminates ==
    /\ [](pc = "search" => nreq < Max(1, MaxTotal))
    /\ ((pc = "search") ~> Finished)

\* a call that returned after several requests
FetchTerminatesWitness == pc = "done" /\ nreq >= 2 /\ req.start_offset = 1

\* C2: in the tuple fetch returns, has_more is true exactly when the total the
\* upstream reported last is greater than the returned next_offset
HasMoreIffTotalBeyondOffset ==
    (pc = "done" /\ total # NoneInt) =>
        /\ result.has_more <=> (total > result.next_offset)
        /\ ~result.has_more <=> (result.next_offset >= total)

\* a call that returned has_more after it consumed records
HasMoreWitness ==
    pc = "done" /\ result.has_more /\ result.next_offset > 0 /\ total = MaxTotal

\* C3: no item whose media_type is "other" is in the list fetch returns, whatever
\* filters are requested
NoOtherInResult ==
    /\ \A i \in 1..Len(gathered) : gathered[i].media_type # "other"
    /\ \A i \in 1..Len(Items) : Items[i].media_type # "other"

\* a call without any filter and with room left in the page that returned fewer
\* items than the upstream returned records: a record was rejected as "other"
NoOtherWitness ==
    /\ pc = "done"
    /\ req.media_type = None /\ req.quality = None /\ req.page_size = NoneInt
    /\ Len(Items) > 0 /\ raw > Len(Items)

\* C4: fetch returns at most limit items (the page size in effect); it issues a
\* further request only while fewer than limit items are gathered, the previous
\* response was not empty and the offset is below the reported total; so a
\* result of fewer than limit items comes with an empty last response or an
\* offset that has reached the total
PageBounded ==
    /\ Len(Items) <= limit
    /\ pc = "search" =>
          /\ Len(gathered) < limit
          /\ nreq > 0 => (last_len > 0 /\ offset < total)
    /\ (pc = "done" /\ Len(Items) < limit) => (last_len = 0 \/ offset >= total)

\* a call that returned a full page although the upstream had returned more
\* records than the page holds
PageBoundedWitness ==
    pc = "done" /\ Len(Items) = limit /\ raw > limit /\ nreq = 2

\* C5: the next_offset fetch returns is max(0, start_offset) plus the number of
\* raw records the upstream returned during the call, however many were accepted
NextOffsetIsRawOffset ==
    pc = "done" => result.next_offset = Max(0, req.start_offset) + raw

\* a call from a positive offset that returned after the filter rejected records
NextOffsetWitness ==
    /\ pc = "done" /\ req.start_offset = 1 /\ req.media_type = "movie"
    /\ raw >= 2 /\ Len(Items) = 1 /\ Len(Items) < limit

\* C10: once a search request of a call has failed, the call has failed: it has
\* issued no request since and it returns nothing
SearchFailureFailsFetch ==
    err_at # NoneInt => (pc = "failed" /\ nreq = err_at /\ result = NoResult)

\* a call whose second request failed after the first had items gathered
SearchFailureWitness ==
    pc = "failed" /\ err_at = 2 /\ gathered # <<>>

(***************************************************************************)
(* Properties of MetadataManager.enrich                                    *)
(***************************************************************************)
\* an enrich call has been made and it returned
Enriched1 == item # NoItem /\ ~raised

\* the providers the last call asked, up to but not including the i-th, reported
\* no match: they returned nothing or failed
NoMatchBefore(i) == \A j \in 1..(i - 1) : outs[j] # "match"

\* C6: the providers are asked for at most one item per cache key, and an enrich
\* for a key that is in the cache, as a match or as a miss, returns the cached
\* value, calls no provider and leaves the cache as it is
ProvidersAskedOncePerKey ==
    /\ [](\A k \in DOMAIN asked : asked[k] <= 1)
    /\ [][cache_key(item') \in DOMAIN cache =>
             /\ called' = <<>>
             /\ ret' = cache[cache_key(item')]
             /\ cache' = cache]_vars

\* an enrich served a miss from the cache although providers are configured, for
\* a record other than the one the providers were asked for
ProvidersAskedOnceWitness ==
    /\ hit /\ providers # <<>> /\ ret = NoneDict /\ called = <<>>
    /\ item.ident = "f4"
    /\ cache_key(item) \in DOMAIN asked /\ asked[cache_key(item)] = 1

\* C7: on a cache miss enrich calls the providers in their configured order, each
\* only after all before it reported no match, and none after the first match;
\* it returns the first match, has it merged into the item and caches it, and it
\* returns and caches a miss when no provider matched
FirstMatchWins ==
    (Enriched1 /\ ~hit) =>
        /\ Len(called) <= Len(providers)
        /\ \A i \in 1..Len(called) : called[i] = providers[i] /\ NoMatchBefore(i)
        /\ Len(called) < Len(providers) => outs[Len(called)] = "match"
        /\ cache_key(item) \in DOMAIN cache /\ cache[cache_key(item)] = ret
        /\ IF called # <<>> /\ outs[Len(called)] = "match"
           THEN /\ ret = ProviderAnswer(called[Len(called)])
                /\ \A k \in ret.keys :
                      k \in item.metadata.keys /\ item.metadata.val[k] = ret.val[k]
           ELSE ret = NoneDict /\ item.metadata = EmptyDict

\* with two providers configured, both would have matched and only the first was called
FirstMatchWinsWitness ==
    /\ Enriched1 /\ ~hit /\ Len(providers) = 2
    /\ outs[1] = "match" /\ outs[2] = "match"
    /\ called = <<providers[1]>> /\ ret = ProviderAnswer(providers[1])

\* C8: a provider that fails does not make enrich fail: enrich goes on to the
\* next provider as after a provider without a match, and returns a miss when no
\* provider matched
ProviderFailureContained ==
    \A i \in 1..Len(called) :
        outs[i] = "raise" =>
            /\ ~raised
            /\ i < Len(providers) => (Len(called) > i /\ called[i + 1] = providers[i + 1])
            /\ (\A j \in 1..Len(called) : outs[j] # "match") => ret = NoneDict
            /\ (\E j \in 1..Len(called) : outs[j] = "match") =>
                  ret = ProviderAnswer(called[Len(called)])

\* the first provider failed and the second matched
ProviderFailureWitness ==
    /\ Enriched1 /\ Len(called) = 2 /\ outs[1] = "raise" /\ outs[2] = "match"
    /\ ret = ProviderAnswer(called[2]) /\ "provider" \in item.metadata.keys

(***************************************************************************)
(* Properties of MediaItem.apply_metadata                                  *)
(***************************************************************************)
\* the value apply_metadata defaults a key to
DefaultOf(k) == IF k = "title" THEN item.cleaned_title ELSE item.guessed_year

MalformedRecordsDropped ==
    /\ pc = "done" =>
          \A i \in 1..Len(Items) : Items[i].ident # "" /\ Items[i].original_name # <<>>
    /\ pc = "failed" => err_at # NoneInt

\* C12: a fetch call with page_size 0 returns at once with no items: it takes no
\* record from the upstream, gathers nothing and returns an empty list
ZeroPageReturnsEmpty ==
    (req.page_size = 0 /\ pc # "idle") =>
        /\ raw = 0
        /\ gathered = <<>>
        /\ pc = "done" => Items = <<>>

\* C13: a fetch call with the kind filter "movie" returns no item of a known size
\* below 100 MiB, and one with the kind filter "tvshow" none of a known size below
\* 50 MiB; a size of exactly the minimum is not rejected: when every record of the
\* upstream is of the requested kind and of exactly its minimum size, a call whose
\* page did not fill returns as many items as the upstream returned records
SizeThresholdsKept ==
    pc = "done" =>
        /\ req.media_type = "movie" =>
              \A i \in 1..Len(Items) :
                 Items[i].size = NoneInt \/ Items[i].size >= 104857600
        /\ req.media_type = "tvshow" =>
              \A i \in 1..Len(Items) :
                 Items[i].size = NoneInt \/ Items[i].size >= 52428800
        /\ ( /\ req.media_type \in {"movie", "tvshow"}
             /\ \A p \in upstream :
                   /\ Parsed(p).media_type = req.media_type
                   /\ p.size = (IF req.media_type = "movie" THEN 104857600
                                ELSE 52428800)
                   /\ StrLen(Parsed(p).cleaned_title) >= 3
             /\ raw < limit )
           => Len(Items) = raw

\* a movie listing returned two movies of exactly 100 MiB
SizeThresholdsWitness ==
    /\ pc = "done" /\ req.media_type = "movie" /\ Len(Items) = 2
    /\ \A i \in 1..2 : Items[i].size = 104857600 /\ Items[i].media_type = "movie"

\* C14: no fetch result holds an item of media_type "movie" whose cleaned title
\* is shorter than 3 characters, whatever the filters of the call are, a call
\* without kind filter included
NoShortMovieTitles ==
    pc = "done" =>
        \A i \in 1..Len(Items) :
           Items[i].media_type = "movie" => StrLen(Items[i].cleaned_title) >= 3

\* C15: a fetch call with a kind filter returns items of exactly that media_type
\* only; a call without kind filter (and without any other filter) rejects no
\* movie and no episode: when the upstream holds movies and episodes only and the
\* page did not fill, it returns as many items as the upstream returned records
KindFilterExact ==
    pc = "done" =>
        /\ Given(req.media_type) =>
              \A i \in 1..Len(Items) : Items[i].media_type = req.media_type
        /\ ( /\ req.media_type = None /\ req.quality = None /\ raw < limit
             /\ \A p \in upstream : Parsed(p).media_type \in {"movie", "tvshow"} )
           => Len(Items) = raw

\* a call without kind filter returned a movie and an episode
KindFilterWitness ==
    /\ pc = "done" /\ req.media_type = None /\ req.page_size = NoneInt
    /\ \E i, j \in 1..Len(Items) :
          Items[i].media_type = "movie" /\ Items[j].media_type = "tvshow"

\* what C16 says a quality filter accepts
QualityAccepted(requested, quality) ==
    CASE requested \in {None, "any"} -> TRUE
      [] requested = "hd" -> quality \in {"hd", "uhd"}
      [] requested = "uhd" -> quality = "uhd"
      [] requested = "sd" -> quality = "sd"
      [] OTHER -> quality = requested

\* C16: the quality filter is an exact match, except that "hd" accepts hd and
\* uhd: a fetch result holds only items of an accepted quality (an item without
\* quality only when no quality or "any" is requested), and the filter rejects no
\* item of an accepted quality: when every record of the upstream is a movie or an
\* episode of an accepted quality and the page did not fill, a call without kind
\* filter returns as many items as the upstream returned records
QualityFilterExactButHd ==
    pc = "done" =>
        /\ \A i \in 1..Len(Items) : QualityAccepted(req.quality, Items[i].quality)
        /\ ( /\ req.media_type = None /\ raw < limit
             /\ \A p \in upstream :
                   /\ Parsed(p).media_type \in {"movie", "tvshow"}
                   /\ QualityAccepted(req.quality, Parsed(p).quality) )
           => Len(Items) = raw

\* a call for "hd" returned an item of quality uhd
QualityFilterWitness ==
    /\ pc = "done" /\ req.quality = "hd" /\ Len(Items) > 0
    /\ Items[1].quality = "uhd"

\* the genre list the metadata of an item provides, empty if it provides none
ListedGenres(it) ==
    IF "genres" \in it.metadata.keys THEN it.metadata.val.genres ELSE <<>>

\* what C17 says a genre filter accepts: an item with listed genres by them
\* only, another one by the keywords in its title and file name
GenreAccepted(it, genre) ==
    IF ListedGenres(it) # <<>>
    THEN \E i \in 1..Len(ListedGenres(it)) :
            LowerTok(ListedGenres(it)[i]) = LowerTok(genre)
    ELSE \E i \in 1..Len(it.original_name) :
            LowerTok(genre) \in KeywordGenres(LowerTok(it.original_name[i]))

\* the item fetch judges for the record p once the decision for its key is cached
JudgedItem(p) ==
    IF Truthy(cache[cache_key(Parsed(p))])
    THEN apply_metadata(Parsed(p), cache[cache_key(Parsed(p))])
    ELSE Parsed(p)

\* C17: under a genre filter, every item of a fetch result is accepted by its
\* listed genres if its metadata lists any, and by the keyword table otherwise;
\* and the filter rejects exactly the others: when the upstream holds one record
\* only and the page did not fill, the call returns all the records the upstream
\* returned if the enriched item is accepted, and none if it is not
GenreJudgedByMetadataFirst ==
    (pc = "done" /\ Given(req.genre)) =>
        /\ \A i \in 1..Len(Items) : GenreAccepted(Items[i], req.genre)
        /\ \A p \in upstream :
              (upstream = {p} /\ raw > 0 /\ raw < limit) =>
                 Len(Items) = (IF GenreAccepted(JudgedItem(p), req.genre) THEN raw ELSE 0)

\* a call for "fantasy" returned nothing although the upstream returned a record
\* with the keyword "dragon" in its name: its metadata lists the genre Action
GenreFilterWitness ==
    /\ pc = "done" /\ req.genre = "fantasy" /\ upstream = {UhdRecord}
    /\ raw > 0 /\ Items = <<>>
    /\ ListedGenres(JudgedItem(UhdRecord)) = <<"Action">>

\* the letters and digits of the titles of the model, in lowercase
Letters(title) ==
    CASE title = <<"Matrix">> -> "matrix"
      [] title = <<"The", "Matrix">> -> "thematrix"
      [] title = <<"Matrix", "Reloaded">> -> "matrixreloaded"
      [] title = <<"The", ":", "MATRIX">> -> "thematrix"
      [] title = <<"Heat">> -> "heat"
      [] OTHER -> ""

\* the pairs of these strings of which one is inside the other
OneInsideOther ==
    {<<"matrix", "thematrix">>, <<"matrix", "matrixreloaded">>}

\* C18: the score of a candidate is the sum of a title term (80 for equal
\* normalised titles, else 50 when one is a substring of the other, else 0), a
\* year term (30 when both years are known and at most 1 apart, -20 when both
\* are known and further apart, else 0) and 10 for a TV query with a known
\* season; the query Matrix/1999 scores 80 against The Matrix/1999 and 30
\* against Matrix Reloaded/2003
CandidateScoreIsSum ==
    candidate # NoCandidate =>
        LET q == Letters(item.cleaned_title)
            c == Letters(candidate.title)
            known == item.guessed_year # NoneInt /\ candidate.year # NoneInt
            apart == IF item.guessed_year >= candidate.year
                     THEN item.guessed_year - candidate.year
                     ELSE candidate.year - item.guessed_year
        IN  /\ score = (IF q = c THEN 80
                        ELSE IF <<q, c>> \in OneInsideOther \/ <<c, q>> \in OneInsideOther
                        THEN 50 ELSE 0)
                       + (IF known /\ apart <= 1 THEN 30
                          ELSE IF known THEN 0 - 20 ELSE 0)
                       + (IF item.media_type = "tvshow" /\ item.season # NoneInt
                          THEN 10 ELSE 0)
            /\ ( /\ item.cleaned_title = <<"Matrix">> /\ item.guessed_year = 1999
                 /\ item.media_type = "movie" )
               => /\ candidate = [title |-> <<"The", "Matrix">>, year |-> 1999]
                     => score = 80
                  /\ candidate = [title |-> <<"Matrix", "Reloaded">>, year |-> 2003]
                     => score = 30

\* the query Matrix/1999 scored against Matrix Reloaded/2003
CandidateScoreWitness ==
    /\ item.cleaned_title = <<"Matrix">> /\ item.guessed_year = 1999
    /\ item.media_type = "movie"
    /\ candidate = [title |-> <<"Matrix", "Reloaded">>, year |-> 2003]
    /\ score = 30

\* C19: title cleaning leaves the title words only: the item built for the name
\* Awesome.Movie.2021.1080p.BluRay.x264.CZ-ENG.DTS-GROUP.mkv has the cleaned
\* title "Awesome Movie", the one for
\* My.Favorite.Show.S03E04.The.Episode.Title.720p.WEB-DL.SK.AAC.mkv has "My
\* Favorite Show The Episode Title", and the one for
\* Movie.Title.2023.1080p.x264-GROUP has "Movie Title"
CleanTitleKeepsTitleWordsOnly ==
    /\ item.original_name = AwesomeMovieName =>
          item.cleaned_title = <<"Awesome", "Movie">>
    /\ item.original_name = FavoriteShowName =>
          item.cleaned_title = <<"My", "Favorite", "Show", "The", "Episode", "Title">>
    /\ item.original_name = MovieTitleName =>
          item.cleaned_title = <<"Movie", "Title">>

\* C20: classify_media_type gives "other" for every name with a partNN or cdN
\* marker and no TV marker: every item built from such a name has the media_type
\* "other", the items for My.Series.Part01.mkv and My.Movie.CD1.mkv among them
PartMarkerMeansOther ==
    ( /\ \E i \in 1..Len(item.original_name) :
            item.original_name[i] \in {"Part01", "CD1"}
      /\ \A i \in 1..Len(item.original_name) :
            item.original_name[i] \notin {"S01E02", "S03E04"} )
    => item.media_type = "other"

(***************************************************************************)
(* Properties of the parser                                                *)
(***************************************************************************)
\* C21: every item parse_media_entry builds has a cleaned title that is not
\* empty, whatever the name of the record is: empty, made of separators only, or
\* of removable tags only
CleanedTitleNeverEmpty ==
    item # NoItem => item.cleaned_title # <<>>

\* the SxxExx and NxNN markers of the names of the model, with their pairs
SxxExxPairs == [S01E02 |-> <<1, 2>>, S03E04 |-> <<3, 4>>]
NxNNPairs == [2x05 |-> <<2, 5>>]

\* the words of a name that are markers of the set of pairs m, in their order
MarkersIn(name, m) == SelectSeq(name, LAMBDA t : t \in DOMAIN m)

\* C22: on every built item season and episode are both present or both absent;
\* they are present exactly when the name has an SxxExx or an NxNN marker; the
\* pair is that of the first SxxExx marker if there is one, wherever the NxNN
\* markers stand, and that of the first NxNN marker otherwise
SeasonEpisodeTogether ==
    item # NoItem =>
        LET sxx == MarkersIn(item.original_name, SxxExxPairs)
            nxnn == MarkersIn(item.original_name, NxNNPairs)
        IN  /\ item.season = NoneInt <=> item.episode = NoneInt
            /\ item.season # NoneInt <=> (sxx # <<>> \/ nxnn # <<>>)
            /\ sxx # <<>> => <<item.season, item.episode>> = SxxExxPairs[sxx[1]]
            /\ (sxx = <<>> /\ nxnn # <<>>) =>
                  <<item.season, item.episode>> = NxNNPairs[nxnn[1]]

\* the item built for a name with an NxNN marker before an SxxExx marker
SeasonEpisodeWitness ==
    /\ item.original_name = <<"2x05", "S01E02">>
    /\ item.season = 1 /\ item.episode = 2

\* the words of the names of the model in which a marker of a tier occurs:
\* 2160p; 1080p, 720p, bluray and hd (inside HDTV); dvdrip, hdtv and ts (inside
\* DTS)
UhdMarked == {"2160p"}
HdMarked == {"1080p", "720p", "BluRay", "HDTV"}
SdMarked == {"DVDRip", "HDTV", "DTS"}

\* a word of the set occurs in the name
Carries(name, marked) == \E i \in 1..Len(name) : name[i] \in marked

\* C23: the quality of a built item is the highest tier of which a marker occurs
\* in the name, uhd over hd over sd, and None when none occurs; its quality_score
\* is the score of that tier: 3, 2, 1, and 0 without quality
QualityIsHighestTier ==
    item # NoItem =>
        <<item.quality, item.quality_score>> =
            (IF Carries(item.original_name, UhdMarked) THEN <<"uhd", 3>>
             ELSE IF Carries(item.original_name, HdMarked) THEN <<"hd", 2>>
             ELSE IF Carries(item.original_name, SdMarked) THEN <<"sd", 1>>
             ELSE <<None, 0>>)

\* the item built for a name with an HD marker before a UHD marker
QualityTierWitness ==
    /\ item.original_name = <<"Movie", "1080p", "2160p">>
    /\ item.quality = "uhd" /\ item.quality_score = 3

(***************************************************************************)
(* Properties of a walk through the pages                                  *)
(***************************************************************************)
\* the items of all the pages of the walk, the one just returned included
WalkReturned == walked \o Items

\* the walk is over: a page came without has_more
WalkOver == pc = "done" /\ ~result.has_more

\* C24: when a caller has walked an unchanging upstream to its end with the same
\* filters, every record of the upstream that passes the filter was returned in
\* exactly one page, and no other record was returned
EveryMatchOnOnePage ==
    WalkOver =>
        \A k \in 1..Len(shelf) :
           Cardinality({i \in 1..Len(WalkReturned) :
                           WalkReturned[i].ident = shelf[k].ident})
             = (IF _passes_filters(Parsed(shelf[k]), req.media_type, req.letter,
                                   req.quality, req.audio, req.subtitles, req.genre)
                THEN 1 ELSE 0)

\* the call ended on an empty response although the total lies beyond the offset
Stalled == pc = "done" /\ last_len = 0 /\ total > offset

\* C25 as stated: whenever fetch returns has_more, the next_offset it returns is
\* greater than the start offset of the call
NextOffsetBeyondStart ==
    (pc = "done" /\ result.has_more) => result.next_offset > req.start_offset

\* C25: whenever fetch returns has_more and the upstream returned a record during
\* the call, the returned next_offset is greater than the start offset; a call
\* that returns has_more without getting further returns no item and ended on an
\* empty response; so a caller that goes from page to page while has_more is true,
\* against an upstream that answers every search below its total with a record,
\* gets a page without has_more in the end
WalkGetsFurther ==
    /\ []((pc = "done" /\ result.has_more /\ raw > 0) =>
             result.next_offset > req.start_offset)
    /\ []((pc = "done" /\ result.has_more /\ result.next_offset <= req.start_offset) =>
             (Items = <<>> /\ Stalled))
    /\ ([]~Stalled) => <>WalkOver

\* a walk that ended on its second page
WalkGetsFurtherWitness ==
    /\ WalkOver /\ req.start_offset > 0 /\ raw > 0
    /\ Len(walked) > 0 /\ Len(Items) > 0

\* the words of the names of the model that are markers for the classifier: of a
\* series (a season and episode tag, or a season), of a file that is no content,
\* of a part of a file, and of a movie
TvMarked == {"S01E02", "S03E04", "2x05", "Season1"}
BlockMarked == {"Trailer"}
PartMarked == {"Part01", "CD1"}
MovieMarked == {"Movie"}

\* C26: the classifier takes the first rule that matches: a name with a season
\* and episode tag or another series marker is a tvshow, also when it has a
\* marker of the blocklist (trailer, a part); a name is other only when no series
\* rule matched and a rule of the blocklist does; it is a movie only when neither
\* matched
ClassifierFirstMatchWins ==
    item # NoItem =>
        LET name == item.original_name
            tv == Carries(name, TvMarked)
            blocked == \/ Carries(name, BlockMarked)
                       \/ Carries(name, PartMarked) /\ ~Carries(name, MovieMarked)
        IN  /\ tv => item.media_type = "tvshow"
            /\ item.media_type = "other" => (~tv /\ blocked)
            /\ item.media_type = "movie" => (~tv /\ ~blocked)
            /\ item.media_type \in {"tvshow", "other", "movie"}

\* the item built for a name with a trailer marker before a season marker
ClassifierWitness ==
    /\ item.original_name = <<"Trailer", "Part01", "Season1">>
    /\ item.media_type = "tvshow"

TopScoreEarliestWins ==
    chosen.pos > 0 =>
        /\ \E i \in 1..Len(scored) : scored[i] = chosen
        /\ {scored[i].pos : i \in 1..Len(scored)} = 1..Len(scored)
        /\ chosen.score = _candidate_score(item, chosen.title, chosen.year)
        /\ \A i \in 1..Len(scored) :
              /\ scored[i].score <= chosen.score
              /\ scored[i].score = chosen.score => chosen.pos <= scored[i].pos

\* the second result is returned: the first has a lower score and the third has
\* the same score
TopScoreWitness ==
    /\ chosen.pos = 2 /\ Len(scored) = 3
    /\ \E i \in 1..3 : scored[i].pos = 1 /\ scored[i].score < chosen.score
    /\ \E i \in 1..3 : scored[i].pos = 3 /\ scored[i].score = chosen.score

\* C29: every search request that reaches the upstream during a fetch call has a
\* limit from 1 to 100 and an offset of 0 or more, whatever start_offset (also
\* below 0) and page_size (also above 100) the caller gave; and the offset of
\* fetch goes on by the number of records the response held, not by the limit
\* asked for
SearchRequestsClamped ==
    sent # NoSent =>
        /\ sent.limit \in 1..100
        /\ sent.offset >= 0
        /\ pc \in {"search", "done"} => offset = sent.offset + last_len

\* a call with start_offset -1 and page_size 150: its second request asked for
\* 100 records from offset 1 and got one
SearchClampedWitness ==
    /\ pc = "done" /\ req.start_offset = 0 - 1 /\ req.page_size = 150
    /\ nreq = 2 /\ sent = [limit |-> 100, offset |-> 1]
    /\ last_len = 1 /\ offset = 2

\* C30: a manager without providers (the order "none") honours enrich: the call
\* returns no match and does not raise, the metadata of the item stays empty, and
\* a second call for the key does the same
NoProvidersStillEnriches ==
    (has_manager /\ providers = <<>> /\ item # NoItem) =>
        /\ ~raised
        /\ ret = NoneDict
        /\ item.metadata = EmptyDict

====
